---- MODULE Spec2Model ----
(***************************************************************************)
(* Model of ClientReconciler.Reconcile (controllers/client_controller.go). *)
(*                                                                         *)
(* The cluster store holds four kinds of objects: Client declarations,     *)
(* Upstreams, ConfigMaps (the configuration artifact) and Pods (the worker *)
(* process).  One Reconcile pass per identity is a sequence of steps, one  *)
(* per remote call (Get, List, Create, Reload) together with the local     *)
(* code that follows it up to the next remote call.  Users, the kubelet,   *)
(* other actors and the store's failures are the environment.              *)
(***************************************************************************)
EXTENDS Integers, Sequences, FiniteSets, TLC

VARIABLES clients, upstreams, configmaps, pods, pass, hist, related, npass, nenv,
          deleted

vars == <<clients, upstreams, configmaps, pods, pass, hist, related, npass, nenv,
          deleted>>

store == <<clients, upstreams, configmaps, pods>>

(***************************************************************************)
(* Bounds of the model.                                                    *)
(***************************************************************************)
MaxPasses == 2
MaxEnv == 1

(***************************************************************************)
(* Program constants.                                                      *)
(***************************************************************************)
ShortDelay == 10
LongDelay == 30
NoDelay == 0
Image == "fatedier/frpc:v0.43.0"
PodRunning == "Running"

(***************************************************************************)
(* The universe of objects.  An identity is <<namespace, name>>.           *)
(***************************************************************************)
Ids == {<<"ns1", "a">>, <<"ns2", "a">>}
Namespace(id) == id[1]
Name(id) == id[2]
NoOwner == <<"", "">>

\* Upstream objects, in the order the store lists them (by key).
UpstreamOrder ==
    << [namespace |-> "ns1", name |-> "u1", client |-> "a"],
       [namespace |-> "ns1", name |-> "u2", client |-> "b"] >>
Upstreams == {UpstreamOrder[i] : i \in 1..Len(UpstreamOrder)}

\* Values of the Client's spec: two valid settings and one NewConfig rejects.
ValidSettings == {"s1", "s2"}
Settings == ValidSettings \cup {"invalid"}

PodIPOf(id) == IF Namespace(id) = "ns1" THEN "10.0.1.1" ELSE "10.0.2.1"
DeclaredAdminAddress == "127.0.0.1"

NilData == [settings |-> "", rules |-> <<>>]
ForeignData == [settings |-> "foreign", rules |-> <<>>]
NilConfig == [settings |-> "", adminAddress |-> "", rules |-> <<>>]
EmptyClient == [id |-> NoOwner, spec |-> ""]
EmptyConfigMap == [id |-> NoOwner, data |-> NilData, owner |-> NoOwner]
EmptyPod == [id |-> NoOwner, phase |-> "", podIP |-> "", owner |-> NoOwner, image |-> ""]
NoResult == [err |-> "none", requeueAfter |-> NoDelay]
NoFailure == [err |-> "", at |-> 0]
NoSnapshot == [client |-> EmptyClient, items |-> <<>>,
               configmap |-> EmptyConfigMap, pod |-> EmptyPod]

EmptyPass ==
    [pc |-> "idle", ctxDone |-> FALSE, cancelledAt |-> 0,
     clean |-> TRUE, failure |-> NoFailure, snap |-> NoSnapshot,
     hadConfigMap |-> FALSE, hadPod |-> FALSE,
     client |-> EmptyClient, items |-> <<>>, filteredUpstreams |-> <<>>,
     config |-> NilConfig,
     configmap |-> EmptyConfigMap, createdConfigMap |-> EmptyConfigMap,
     pod |-> EmptyPod, createdPod |-> EmptyPod,
     result |-> NoResult, calls |-> <<>>]

(***************************************************************************)
(* Helpers.                                                                *)
(***************************************************************************)
\* A kind of the store is a set of objects, at most one per identity.
Has(objs, id) == \E o \in objs : o.id = id
Obj(objs, id) == CHOOSE o \in objs : o.id = id
Put(objs, o) == {x \in objs : x.id # o.id} \cup {o}
Drop(objs, id) == {x \in objs : x.id # id}

Call(op, kind, owner, addr) ==
    [op |-> op, kind |-> kind, owner |-> owner, addr |-> addr]
Log(p, c) == [p EXCEPT !.calls = Append(@, c)]

Count(calls, op, kind) ==
    Cardinality({i \in 1..Len(calls) : calls[i].op = op /\ calls[i].kind = kind})
Creates(calls) == Count(calls, "create", "ConfigMap") + Count(calls, "create", "Pod")
Reloads(calls) == Count(calls, "reload", "Worker")

\* ctrl.Result{...}, err as returned by Reconcile.
Return(p, err, requeue) ==
    [p EXCEPT !.pc = "done", !.result = [err |-> err, requeueAfter |-> requeue]]
\* Mutant: an error returned together with a requeue delay.
Fail_Requeue(p, err) == Return(p, err, ShortDelay)
Fail(p, err) == Return(p, err, NoDelay)
Faulted(p) == [p EXCEPT !.clean = FALSE]

\* A call of the pass returned err (other than a not-found the code handles):
\* the error and the number of the call are remembered.
CallFails(p, err) == [p EXCEPT !.failure = [err |-> err, at |-> Len(p.calls)]]
\* if err != nil { return ctrl.Result{}, err }
Abort(p, err) == Fail(CallFails(p, err), err)

Active(id) == pass[id].pc \notin {"idle", "done"}

\* The record of consecutive passes of one identity that nothing disturbed.
Summary(p) == [creates |-> Creates(p.calls), reloads |-> Reloads(p.calls),
               err |-> p.result.err, requeueAfter |-> p.result.requeueAfter,
               snap |-> p.snap]
HistAfter(id, p) ==
    IF p.pc # "done" THEN hist[id]
    ELSE IF ~p.clean THEN <<>>
    ELSE IF Len(hist[id]) = 0 THEN <<Summary(p)>>
    ELSE <<hist[id][Len(hist[id])], Summary(p)>>

Range(seq) == {seq[i] : i \in 1..Len(seq)}

\* One step of the pass of id: its record becomes p.
Step(id, p) ==
    /\ pass' = [pass EXCEPT ![id] = p]
    /\ hist' = [hist EXCEPT ![id] = HistAfter(id, p)]
    /\ related' = IF pass[id].pc = "list" /\ p.pc # "done"
                  THEN [related EXCEPT ![id] = Range(p.filteredUpstreams)]
                  ELSE related
    /\ UNCHANGED <<npass, nenv, deleted>>

(***************************************************************************)
(* Collaborators: models.NewConfig and the builders.                       *)
(***************************************************************************)
\* Mutant: the filter loop keeps every listed upstream.
Filter_All(items, name) == items
Filter(items, name) == SelectSeq(items, LAMBDA u : u.client = name)

ListItems == SelectSeq(UpstreamOrder, LAMBDA u : u \in upstreams)

RuleOf(u) == <<u.namespace, u.name>>
NewConfigOk(client) == client.spec \in ValidSettings
NewConfig(client, ups) ==
    [settings |-> client.spec, adminAddress |-> DeclaredAdminAddress,
     rules |-> [i \in 1..Len(ups) |-> RuleOf(ups[i])]]
ConfigurationBuild(config) == [settings |-> config.settings, rules |-> config.rules]
ConfigMapBuild(configuration, id) == [id |-> id, data |-> configuration, owner |-> NoOwner]
PodBuild(id) == [id |-> id, phase |-> "", podIP |-> "", owner |-> NoOwner, image |-> Image]
\* Mutant: the owner reference is never set.
SetControllerReference_None(owner, obj) == obj
SetControllerReference(owner, obj) == [obj EXCEPT !.owner = owner]

\* The ConfigMap a pass renders for a Client from the listed upstreams.
RenderedConfigMap(client, items) ==
    SetControllerReference(client.id,
        ConfigMapBuild(ConfigurationBuild(NewConfig(client, Filter(items, Name(client.id)))),
                       client.id))

\* What the store holds for id when a pass starts: all a pass reads.
Snapshot(id) ==
    [client |-> IF Has(clients, id) THEN Obj(clients, id) ELSE EmptyClient,
     items |-> ListItems,
     configmap |-> IF Has(configmaps, id) THEN Obj(configmaps, id) ELSE EmptyConfigMap,
     pod |-> IF Has(pods, id) THEN Obj(pods, id) ELSE EmptyPod]

(***************************************************************************)
(* Init: the controller starts against a store holding the declarations   *)
(* and any upstreams.  The managed objects are either absent, or those an  *)
(* earlier run of the controller left behind for every identity: the       *)
(* ConfigMap it rendered and its Pod, now running.                         *)
(***************************************************************************)
Init ==
    /\ clients = {[id |-> id, spec |-> "s1"] : id \in Ids}
    /\ upstreams \in SUBSET Upstreams
    /\ \E settled \in {{}, Ids} :
         /\ configmaps = {RenderedConfigMap([id |-> id, spec |-> "s1"], ListItems)
                            : id \in settled}
         /\ pods = {[SetControllerReference(id, PodBuild(id))
                       EXCEPT !.phase = PodRunning, !.podIP = PodIPOf(id)]
                      : id \in settled}
    /\ pass = [id \in Ids |-> EmptyPass]
    /\ hist = [id \in Ids |-> <<>>]
    /\ related = [id \in Ids |-> {}]
    /\ npass = 0
    /\ nenv = 0
    /\ deleted = FALSE

(***************************************************************************)
(* The Reconcile pass.                                                     *)
(***************************************************************************)
\* The dispatcher triggers a pass for id.  SetupWithManager sets no options, so
\* the controller runs one worker: a pass starts when no other is in flight.
Start(id) ==
    /\ \A other \in Ids : ~Active(other)
    /\ npass < MaxPasses
    /\ npass' = npass + 1
    /\ pass' = [x \in Ids |->
                  IF x = id THEN [EmptyPass EXCEPT !.pc = "getClient",
                                                   !.snap = Snapshot(id),
                                                   !.hadConfigMap = Has(configmaps, id),
                                                   !.hadPod = Has(pods, id)]
                  ELSE EmptyPass]
    /\ UNCHANGED <<store, hist, related, nenv, deleted>>

\* Mutant: a missing Client is answered with the error and a requeue delay.
GetClient_NotFoundRequeue(id) ==
    /\ pass[id].pc = "getClient"
    /\ \E fault \in BOOLEAN :
         LET p == Log(pass[id], Call("get", "Client", NoOwner, "")) IN
         Step(id, IF p.ctxDone THEN Abort(p, "Canceled")
                  ELSE IF fault THEN Abort(Faulted(p), "Transient")
                  ELSE IF ~Has(clients, id) THEN Return(CallFails(p, "NotFound"), "NotFound", ShortDelay)
                  ELSE [p EXCEPT !.pc = "list", !.client = Obj(clients, id)])
    /\ UNCHANGED store

\* r.Client.Get(ctx, req.NamespacedName, client)
GetClient(id) ==
    /\ pass[id].pc = "getClient"
    /\ \E fault \in BOOLEAN :
         LET p == Log(pass[id], Call("get", "Client", NoOwner, "")) IN
         Step(id, IF p.ctxDone THEN Abort(p, "Canceled")
                  ELSE IF fault THEN Abort(Faulted(p), "Transient")
                  ELSE IF ~Has(clients, id) THEN Abort(p, "NotFound")
                  ELSE [p EXCEPT !.pc = "list", !.client = Obj(clients, id)])
    /\ UNCHANGED store

\* r.Client.List(ctx, upstreams), the filter loop, NewConfig and the builders.
ListUpstreams(id) ==
    /\ pass[id].pc = "list"
    /\ \E fault \in BOOLEAN :
         LET p == Log(pass[id], Call("list", "Upstream", NoOwner, ""))
             filtered == Filter(ListItems, Name(p.client.id))
             config == NewConfig(p.client, filtered)
             configmap == RenderedConfigMap(p.client, ListItems)
         IN
         Step(id, IF p.ctxDone THEN Abort(p, "Canceled")
                  ELSE IF fault THEN Abort(Faulted(p), "Transient")
                  ELSE IF ~NewConfigOk(p.client)
                       THEN Abort([p EXCEPT !.items = ListItems,
                                           !.filteredUpstreams = filtered], "Invalid")
                  ELSE [p EXCEPT !.pc = "getConfigMap",
                                 !.items = ListItems,
                                 !.filteredUpstreams = filtered,
                                 !.config = config,
                                 !.configmap = configmap])
    /\ UNCHANGED store

\* Mutant: a ConfigMap found with other data is updated in place.
GetConfigMap_Update(id) ==
    /\ pass[id].pc = "getConfigMap"
    /\ \E fault \in BOOLEAN :
         LET p == Log(pass[id], Call("get", "ConfigMap", NoOwner, "")) IN
         /\ Step(id, IF fault THEN Abort(Faulted(p), "Transient")
                     ELSE IF ~Has(configmaps, id)
                          THEN [p EXCEPT !.pc = "createConfigMap"]
                     ELSE [p EXCEPT !.pc = "getPod",
                                    !.createdConfigMap = Obj(configmaps, id),
                                    !.pod = SetControllerReference(id, PodBuild(id))])
         /\ configmaps' = IF ~fault /\ Has(configmaps, id)
                          THEN Put(configmaps, p.configmap)
                          ELSE configmaps
    /\ UNCHANGED <<clients, upstreams, pods>>

\* r.Client.Get(context.TODO(), {configmap.Name, configmap.Namespace}, createdConfigMap)
\* and, when found, the pod builder that follows.
GetConfigMap(id) ==
    /\ pass[id].pc = "getConfigMap"
    /\ \E fault \in BOOLEAN :
         LET p == Log(pass[id], Call("get", "ConfigMap", NoOwner, "")) IN
         Step(id, IF fault THEN Abort(Faulted(p), "Transient")
                  ELSE IF ~Has(configmaps, id)
                       THEN [p EXCEPT !.pc = "createConfigMap"]
                  ELSE [p EXCEPT !.pc = "getPod",
                                 !.createdConfigMap = Obj(configmaps, id),
                                 !.pod = SetControllerReference(id, PodBuild(id))])
    /\ UNCHANGED store

\* Mutant: the ConfigMap is created without the rendered data.
CreateConfigMap_NoData(id) ==
    /\ pass[id].pc = "createConfigMap"
    /\ \E fault \in BOOLEAN :
         LET p == Log(pass[id], Call("create", "ConfigMap", pass[id].configmap.owner, "")) IN
         IF fault
         THEN Step(id, Abort(Faulted(p), "Transient")) /\ UNCHANGED store
         ELSE IF Has(configmaps, id)
         THEN Step(id, Abort(p, "AlreadyExists")) /\ UNCHANGED store
         ELSE /\ configmaps' = Put(configmaps, [p.configmap EXCEPT !.data = NilData])
              /\ Step(id, [p EXCEPT !.pc = "getPod",
                                    !.pod = SetControllerReference(id, PodBuild(id))])
              /\ UNCHANGED <<clients, upstreams, pods>>

\* Mutant: the error of the ConfigMap create is not looked at.
CreateConfigMap_IgnoreError(id) ==
    /\ pass[id].pc = "createConfigMap"
    /\ \E fault \in BOOLEAN :
         LET p == Log(pass[id], Call("create", "ConfigMap", pass[id].configmap.owner, ""))
             q == [p EXCEPT !.pc = "getPod",
                            !.pod = SetControllerReference(id, PodBuild(id))] IN
         IF fault
         THEN Step(id, CallFails(Faulted(q), "Transient")) /\ UNCHANGED store
         ELSE IF Has(configmaps, id)
         THEN Step(id, CallFails(q, "AlreadyExists")) /\ UNCHANGED store
         ELSE /\ configmaps' = Put(configmaps, p.configmap)
              /\ Step(id, q)
              /\ UNCHANGED <<clients, upstreams, pods>>

\* Mutant: a create that finds the ConfigMap present replaces it.
CreateConfigMap_Overwrite(id) ==
    /\ pass[id].pc = "createConfigMap"
    /\ \E fault \in BOOLEAN :
         LET p == Log(pass[id], Call("create", "ConfigMap", pass[id].configmap.owner, "")) IN
         IF fault
         THEN Step(id, Abort(Faulted(p), "Transient")) /\ UNCHANGED store
         ELSE /\ configmaps' = Put(configmaps, p.configmap)
              /\ Step(id, [p EXCEPT !.pc = "getPod",
                                    !.pod = SetControllerReference(id, PodBuild(id))])
              /\ UNCHANGED <<clients, upstreams, pods>>

\* Mutant: the created ConfigMap is kept as the fetched one.
CreateConfigMap_Refetch(id) ==
    /\ pass[id].pc = "createConfigMap"
    /\ \E fault \in BOOLEAN :
         LET p == Log(pass[id], Call("create", "ConfigMap", pass[id].configmap.owner, "")) IN
         IF fault
         THEN Step(id, Abort(Faulted(p), "Transient")) /\ UNCHANGED store
         ELSE IF Has(configmaps, id)
         THEN Step(id, Abort(p, "AlreadyExists")) /\ UNCHANGED store
         ELSE /\ configmaps' = Put(configmaps, p.configmap)
              /\ Step(id, [p EXCEPT !.pc = "getPod",
                                    !.createdConfigMap = p.configmap,
                                    !.pod = SetControllerReference(id, PodBuild(id))])
              /\ UNCHANGED <<clients, upstreams, pods>>

\* r.Client.Create(context.TODO(), configmap)
CreateConfigMap(id) ==
    /\ pass[id].pc = "createConfigMap"
    /\ \E fault \in BOOLEAN :
         LET p == Log(pass[id], Call("create", "ConfigMap", pass[id].configmap.owner, "")) IN
         IF fault
         THEN Step(id, Abort(Faulted(p), "Transient")) /\ UNCHANGED store
         ELSE IF Has(configmaps, id)
         THEN Step(id, Abort(p, "AlreadyExists")) /\ UNCHANGED store
         ELSE /\ configmaps' = Put(configmaps, p.configmap)
              /\ Step(id, [p EXCEPT !.pc = "getPod",
                                    !.pod = SetControllerReference(id, PodBuild(id))])
              /\ UNCHANGED <<clients, upstreams, pods>>

\* r.Client.Get(context.TODO(), {pod.Name, pod.Namespace}, createdPod)
GetPod(id) ==
    /\ pass[id].pc = "getPod"
    /\ \E fault \in BOOLEAN :
         LET p == Log(pass[id], Call("get", "Pod", NoOwner, "")) IN
         Step(id, IF fault THEN Abort(Faulted(p), "Transient")
                  ELSE IF ~Has(pods, id)
                       THEN [p EXCEPT !.pc = "createPod"]
                  ELSE [p EXCEPT !.pc = "check", !.createdPod = Obj(pods, id)])
    /\ UNCHANGED store

\* Mutant: the pod is created without its namespace, in the default one.
CreatePod_NoNamespace(id) ==
    /\ pass[id].pc = "createPod"
    /\ \E fault \in BOOLEAN :
         LET p == Log(pass[id], Call("create", "Pod", pass[id].pod.owner, ""))
             key == <<"ns1", Name(id)>> IN
         IF fault
         THEN Step(id, Abort(Faulted(p), "Transient")) /\ UNCHANGED store
         ELSE IF Has(pods, key)
         THEN Step(id, Abort(p, "AlreadyExists")) /\ UNCHANGED store
         ELSE /\ pods' = Put(pods, [p.pod EXCEPT !.phase = "Pending", !.id = key])
              /\ Step(id, [p EXCEPT !.pc = "sleep"])
              /\ UNCHANGED <<clients, upstreams, configmaps>>

\* r.Client.Create(context.TODO(), pod); the store admits the pod as Pending.
CreatePod(id) ==
    /\ pass[id].pc = "createPod"
    /\ \E fault \in BOOLEAN :
         LET p == Log(pass[id], Call("create", "Pod", pass[id].pod.owner, "")) IN
         IF fault
         THEN Step(id, Abort(Faulted(p), "Transient")) /\ UNCHANGED store
         ELSE IF Has(pods, id)
         THEN Step(id, Abort(p, "AlreadyExists")) /\ UNCHANGED store
         ELSE /\ pods' = Put(pods, [p.pod EXCEPT !.phase = "Pending"])
              /\ Step(id, [p EXCEPT !.pc = "sleep"])
              /\ UNCHANGED <<clients, upstreams, configmaps>>

\* Mutant: after the pause the created pod is read back from the store.
Sleep_Refetch(id) ==
    /\ pass[id].pc = "sleep"
    /\ Step(id, [pass[id] EXCEPT !.pc = "check",
                                 !.createdPod = IF Has(pods, id) THEN Obj(pods, id) ELSE @])
    /\ UNCHANGED store

\* time.Sleep(10 * time.Second)
Sleep(id) ==
    /\ pass[id].pc = "sleep"
    /\ Step(id, [pass[id] EXCEPT !.pc = "check"])
    /\ UNCHANGED store

\* Mutant: the comparison always reports a difference.
DeepEqual_Never(a, b) == FALSE

\* reflect.DeepEqual(createdConfigMap.Data, configmap.Data)
DeepEqual(a, b) == a = b

\* Mutant: the drift comparison is made whatever the pod's phase.
CheckPodRunning_NoGate(id) ==
    /\ pass[id].pc = "check"
    /\ LET p == Log(pass[id], Call("check", "local", NoOwner, ""))
           q == Log(p, Call("compare", "local", NoOwner, "")) IN
       Step(id, IF q.createdConfigMap.data # q.configmap.data
                THEN [q EXCEPT !.pc = "reload",
                               !.config.adminAddress = q.createdPod.podIP]
                ELSE Return(q, "nil", LongDelay))
    /\ UNCHANGED store

\* Mutant: Reload is called with the config as NewConfig built it.
CheckPodRunning_NoAddress(id) ==
    /\ pass[id].pc = "check"
    /\ LET p == Log(pass[id], Call("check", "local", NoOwner, "")) IN
       Step(id, IF p.createdPod.phase # PodRunning
                THEN Return(p, "nil", ShortDelay)
                ELSE LET q == Log(p, Call("compare", "local", NoOwner, "")) IN
                     IF q.createdConfigMap.data # q.configmap.data
                     THEN [q EXCEPT !.pc = "reload"]
                     ELSE Return(q, "nil", LongDelay))
    /\ UNCHANGED store

\* Mutant: the reconciler remembers that it has reloaded and does not reload
\* for the same difference again.
CheckPodRunning_EdgeTriggered(id) ==
    /\ pass[id].pc = "check"
    /\ LET p == Log(pass[id], Call("check", "local", NoOwner, "")) IN
       Step(id, IF p.createdPod.phase # PodRunning
                THEN Return(p, "nil", ShortDelay)
                ELSE LET q == Log(p, Call("compare", "local", NoOwner, "")) IN
                     IF /\ q.createdConfigMap.data # q.configmap.data
                        /\ ~(Len(hist[id]) > 0 /\ hist[id][Len(hist[id])].reloads = 1)
                     THEN [q EXCEPT !.pc = "reload",
                                    !.config.adminAddress = q.createdPod.podIP]
                     ELSE Return(q, "nil", LongDelay))
    /\ UNCHANGED store

\* The readiness check, the drift comparison and the address assignment.
CheckPodRunning(id) ==
    /\ pass[id].pc = "check"
    /\ LET p == Log(pass[id], Call("check", "local", NoOwner, "")) IN
       Step(id, IF p.createdPod.phase # PodRunning
                THEN Return(p, "nil", ShortDelay)
                ELSE LET q == Log(p, Call("compare", "local", NoOwner, "")) IN
                     IF ~DeepEqual(q.createdConfigMap.data, q.configmap.data)
                     THEN [q EXCEPT !.pc = "reload",
                                    !.config.adminAddress = q.createdPod.podIP]
                     ELSE Return(q, "nil", LongDelay))
    /\ UNCHANGED store

\* Mutant: the error of handler.Reload is not looked at.
Reload_IgnoreError(id) ==
    /\ pass[id].pc = "reload"
    /\ \E fault \in BOOLEAN :
         LET p == Log(pass[id], Call("reload", "Worker", NoOwner,
                                     pass[id].config.adminAddress)) IN
         Step(id, IF fault THEN Return(CallFails(Faulted(p), "ReloadFailed"), "nil", LongDelay)
                  ELSE Return(p, "nil", LongDelay))
    /\ UNCHANGED store

\* Mutant: after a reload the rendered ConfigMap is written back to the store.
Reload_WriteBack(id) ==
    /\ pass[id].pc = "reload"
    /\ \E fault \in BOOLEAN :
         LET p == Log(pass[id], Call("reload", "Worker", NoOwner,
                                     pass[id].config.adminAddress)) IN
         /\ Step(id, IF fault THEN Abort(Faulted(p), "ReloadFailed")
                     ELSE Return(p, "nil", LongDelay))
         /\ configmaps' = IF fault THEN configmaps ELSE Put(configmaps, p.configmap)
    /\ UNCHANGED <<clients, upstreams, pods>>

\* handler.Reload(config)
Reload(id) ==
    /\ pass[id].pc = "reload"
    /\ \E fault \in BOOLEAN :
         LET p == Log(pass[id], Call("reload", "Worker", NoOwner,
                                     pass[id].config.adminAddress)) IN
         Step(id, IF fault THEN Abort(Faulted(p), "ReloadFailed")
                  ELSE Return(p, "nil", LongDelay))
    /\ UNCHANGED store

Reconcile(id) ==
    \/ GetClient(id)
    \/ ListUpstreams(id)
    \/ GetConfigMap(id)
    \/ CreateConfigMap(id)
    \/ GetPod(id)
    \/ CreatePod(id)
    \/ Sleep(id)
    \/ CheckPodRunning(id)
    \/ Reload(id)

(***************************************************************************)
(* The environment.  Every change it makes ends the record of undisturbed  *)
(* passes and marks the passes in flight.                                  *)
(***************************************************************************)
Disturb ==
    /\ nenv < MaxEnv
    /\ nenv' = nenv + 1
    /\ hist' = [id \in Ids |-> <<>>]
    /\ UNCHANGED <<npass, related>>

DisturbPasses ==
    pass' = [id \in Ids |-> IF Active(id) THEN Faulted(pass[id]) ELSE pass[id]]

\* A user creates or updates the Client declaration.
ApplyClient(id, s) ==
    /\ Disturb /\ DisturbPasses
    /\ UNCHANGED deleted
    /\ [id |-> id, spec |-> s] \notin clients
    /\ clients' = Put(clients, [id |-> id, spec |-> s])
    /\ UNCHANGED <<upstreams, configmaps, pods>>

\* A user deletes the Client; the store's garbage collector removes what it owns.
DeleteClient(id) ==
    /\ Disturb /\ DisturbPasses
    /\ deleted' = TRUE
    /\ Has(clients, id)
    /\ clients' = Drop(clients, id)
    /\ configmaps' = {o \in configmaps : o.owner # id}
    /\ pods' = {o \in pods : o.owner # id}
    /\ UNCHANGED upstreams

AddUpstream(u) ==
    /\ Disturb /\ DisturbPasses
    /\ UNCHANGED deleted
    /\ u \notin upstreams
    /\ upstreams' = upstreams \cup {u}
    /\ UNCHANGED <<clients, configmaps, pods>>

RemoveUpstream(u) ==
    /\ Disturb /\ DisturbPasses
    /\ UNCHANGED deleted
    /\ u \in upstreams
    /\ upstreams' = upstreams \ {u}
    /\ UNCHANGED <<clients, configmaps, pods>>

\* The kubelet reports the pod's phase (and its address once it runs).
KubeletSetPhase(id, phase) ==
    /\ Disturb /\ DisturbPasses
    /\ UNCHANGED deleted
    /\ Has(pods, id)
    /\ Obj(pods, id).phase # phase
    /\ pods' = Put(pods, [Obj(pods, id) EXCEPT !.phase = phase, !.podIP = PodIPOf(id)])
    /\ UNCHANGED <<clients, upstreams, configmaps>>

\* Another actor creates an object under the identity the engine uses.
ExternalCreateConfigMap(id) ==
    /\ Disturb /\ DisturbPasses
    /\ UNCHANGED deleted
    /\ ~Has(configmaps, id)
    /\ configmaps' = Put(configmaps, [id |-> id, data |-> ForeignData, owner |-> NoOwner])
    /\ UNCHANGED <<clients, upstreams, pods>>

ExternalCreatePod(id) ==
    /\ Disturb /\ DisturbPasses
    /\ UNCHANGED deleted
    /\ ~Has(pods, id)
    /\ pods' = Put(pods, [id |-> id, phase |-> "Pending", podIP |-> "",
                              owner |-> NoOwner, image |-> "other"])
    /\ UNCHANGED <<clients, upstreams, configmaps>>

\* Another actor deletes the ConfigMap of the identity.
ExternalDeleteConfigMap(id) ==
    /\ Disturb /\ DisturbPasses
    /\ deleted' = TRUE
    /\ Has(configmaps, id)
    /\ configmaps' = Drop(configmaps, id)
    /\ UNCHANGED <<clients, upstreams, pods>>

\* The caller cancels the context of the pass in flight.
Cancel(id) ==
    /\ Disturb
    /\ UNCHANGED deleted
    /\ Active(id)
    /\ ~pass[id].ctxDone
    /\ pass' = [pass EXCEPT ![id] = [Faulted(@) EXCEPT !.ctxDone = TRUE,
                                                       !.cancelledAt = Len(pass[id].calls)]]
    /\ UNCHANGED store

Environment ==
    \/ \E id \in Ids, s \in Settings : ApplyClient(id, s)
    \/ \E id \in Ids : DeleteClient(id)
    \/ \E u \in Upstreams : AddUpstream(u)
    \/ \E u \in Upstreams : RemoveUpstream(u)
    \/ \E id \in Ids, phase \in {PodRunning, "Failed"} : KubeletSetPhase(id, phase)
    \/ \E id \in Ids : ExternalCreateConfigMap(id)
    \/ \E id \in Ids : ExternalCreatePod(id)
    \/ \E id \in Ids : ExternalDeleteConfigMap(id)
    \/ \E id \in Ids : Cancel(id)

Engine == \E id \in Ids : Reconcile(id)

Next ==
    \/ \E id \in Ids : Start(id)
    \/ Engine
    \/ Environment

Spec == Init /\ [][Next]_vars

(***************************************************************************)
(* Convergence: passes keep being triggered, every call succeeds, nobody   *)
(* touches the declarations, and the kubelet brings created pods up.       *)
(***************************************************************************)
InitLive == Init /\ configmaps = {} /\ pods = {}

\* The dispatcher triggers a pass for id: the first trigger, or the requeue
\* the last pass asked for.
StartLive(id) ==
    /\ \A other \in Ids : ~Active(other)
    /\ pass' = [x \in Ids |->
                  IF x = id THEN [EmptyPass EXCEPT !.pc = "getClient",
                                                   !.snap = Snapshot(id),
                                                   !.hadConfigMap = Has(configmaps, id),
                                                   !.hadPod = Has(pods, id)]
                  ELSE EmptyPass]
    /\ UNCHANGED <<store, hist, related, npass, nenv, deleted>>

\* A step of a pass in which no call fails.
EngineOk == Engine /\ \A id \in Ids : pass'[id].failure.err = ""

\* The kubelet starts a pending pod.
KubeletRuns(id) ==
    /\ Has(pods, id)
    /\ Obj(pods, id).phase = "Pending"
    /\ pods' = Put(pods, [Obj(pods, id) EXCEPT !.phase = PodRunning, !.podIP = PodIPOf(id)])
    /\ DisturbPasses
    /\ hist' = [x \in Ids |-> <<>>]
    /\ UNCHANGED <<clients, upstreams, configmaps, related, npass, nenv, deleted>>

NextLive ==
    \/ \E id \in Ids : StartLive(id)
    \/ EngineOk
    \/ \E id \in Ids : KubeletRuns(id)

\* A pass in flight goes on; the work queue serves every identity again and
\* again; a pending pod is started.
SpecLive ==
    /\ InitLive
    /\ [][NextLive]_vars
    /\ WF_vars(EngineOk)
    /\ \A id \in Ids : SF_vars(StartLive(id))
    /\ \A id \in Ids : WF_vars (KubeletRuns(id))

(***************************************************************************)
(* A dispatcher with a pool of workers: passes of different identities run *)
(* at the same time, passes of one identity one after the other.           *)
(***************************************************************************)
StartConc(id) ==
    /\ ~Active(id)
    /\ npass < MaxPasses
    /\ npass' = npass + 1
    /\ pass' = [pass EXCEPT ![id] = [EmptyPass EXCEPT !.pc = "getClient",
                                                      !.snap = Snapshot(id),
                                                      !.hadConfigMap = Has(configmaps, id),
                                                      !.hadPod = Has(pods, id)]]
    /\ UNCHANGED <<store, hist, related, nenv, deleted>>

NextConc ==
    \/ \E id \in Ids : StartConc(id)
    \/ Engine

\* As Init, but a Client may have been edited since the ConfigMap that an
\* earlier run left behind was rendered.
InitConc ==
    /\ \E specs \in [Ids -> ValidSettings] :
         clients = {[id |-> id, spec |-> specs[id]] : id \in Ids}
    /\ upstreams \in SUBSET Upstreams
    /\ \E settled \in SUBSET Ids :
         /\ configmaps = {RenderedConfigMap([id |-> id, spec |-> "s1"], ListItems)
                            : id \in settled}
         /\ pods = {[SetControllerReference(id, PodBuild(id))
                       EXCEPT !.phase = PodRunning, !.podIP = PodIPOf(id)]
                      : id \in settled}
    /\ pass = [id \in Ids |-> EmptyPass]
    /\ hist = [id \in Ids |-> <<>>]
    /\ related = [id \in Ids |-> {}]
    /\ npass = 0
    /\ nenv = 0
    /\ deleted = FALSE

SpecConc == InitConc /\ [][NextConc]_vars

(***************************************************************************)
(* What the claims speak of.                                               *)
(***************************************************************************)
Done(p) == p.pc = "done"
Checks(p) == Count(p.calls, "check", "local")
Compares(p) == Count(p.calls, "compare", "local")
LastCall(p) == p.calls[Len(p.calls)]
Position(p, op, kind) == CHOOSE i \in 1..Len(p.calls) :
                            p.calls[i].op = op /\ p.calls[i].kind = kind
Nil == "nil"

\* C1: two passes in succession, nothing external changing between or during
\* them: the second issues no create call and no reload call.
C1_Idempotent ==
    \A id \in Ids :
        Len(hist[id]) = 2 => hist[id][2].creates = 0 /\ hist[id][2].reloads = 0

\* C2: a pass whose readiness check finds the pod's phase other than Running
\* returns no error and the short delay; a pass that has not seen the pod
\* Running has made no drift comparison and no reload call.
C2_ReadinessGate ==
    \A id \in Ids :
        LET p == pass[id] IN
        /\ p.createdPod.phase # PodRunning => Compares(p) = 0 /\ Reloads(p.calls) = 0
        /\ (Done(p) /\ Checks(p) = 1 /\ p.createdPod.phase # PodRunning)
              => p.result = [err |-> Nil, requeueAfter |-> ShortDelay]

C2_Witness ==
    \E id \in Ids :
        LET p == pass[id] IN
        /\ Done(p) /\ Checks(p) = 1
        /\ p.createdPod.phase = "Pending"
        /\ p.result.requeueAfter = ShortDelay

\* C3: a pass that compares a fetched ConfigMap whose data differs from the
\* rendered data (the pod being Running) sets the config's admin address to the
\* fetched pod's IP and then calls Reload exactly once, with that address.
C3_DriftReloadsOnce ==
    \A id \in Ids :
        LET p == pass[id] IN
        (Compares(p) = 1 /\ p.createdConfigMap.data # p.configmap.data) =>
            /\ p.createdPod.phase = PodRunning
            /\ p.pc \in {"reload", "done"}
            /\ p.config.adminAddress = p.createdPod.podIP
            /\ p.pc = "reload" => Reloads(p.calls) = 0
            /\ Done(p) => /\ Reloads(p.calls) = 1
                          /\ LastCall(p).op = "reload"
                          /\ LastCall(p).addr = p.createdPod.podIP

C3_Witness ==
    \E id \in Ids :
        LET p == pass[id] IN
        /\ Done(p) /\ Compares(p) = 1
        /\ p.createdConfigMap.id = id
        /\ p.createdConfigMap.data # p.configmap.data
        /\ Reloads(p.calls) = 1
        /\ LastCall(p).addr = PodIPOf(id)

\* C4: a pass that compares a fetched ConfigMap whose data equals the rendered
\* data issues no reload call and no create call and returns no error with the
\* long delay.
C4_NoDriftSteadyState ==
    \A id \in Ids :
        LET p == pass[id] IN
        (Done(p) /\ Compares(p) = 1 /\ p.createdConfigMap.data = p.configmap.data) =>
            /\ Reloads(p.calls) = 0
            /\ Creates(p.calls) = 0
            /\ p.result = [err |-> Nil, requeueAfter |-> LongDelay]

C4_Witness ==
    \E id \in Ids :
        LET p == pass[id] IN
        /\ Done(p) /\ Compares(p) = 1
        /\ p.createdConfigMap.data = p.configmap.data
        /\ p.result.requeueAfter = LongDelay

\* C5: a pass that starts with neither ConfigMap nor Pod, that nothing disturbs
\* and whose Client is found and valid, issues exactly one create of each, both
\* owned by the Client, and both before its readiness check.
C5_CreationOnAbsence ==
    \A id \in Ids :
        LET p == pass[id] IN
        (Done(p) /\ p.clean /\ ~p.hadConfigMap /\ ~p.hadPod /\ NewConfigOk(p.client)) =>
            /\ Count(p.calls, "create", "ConfigMap") = 1
            /\ Count(p.calls, "create", "Pod") = 1
            /\ \A i \in 1..Len(p.calls) : p.calls[i].op = "create" => p.calls[i].owner = id
            /\ Checks(p) = 1
            /\ Position(p, "create", "ConfigMap") < Position(p, "check", "local")
            /\ Position(p, "create", "Pod") < Position(p, "check", "local")

C5_Witness ==
    \E id \in Ids :
        LET p == pass[id] IN
        /\ Done(p) /\ p.clean /\ ~p.hadConfigMap /\ ~p.hadPod
        /\ Creates(p.calls) = 2
        /\ Has(configmaps, id) /\ Obj(configmaps, id).owner = id
        /\ Has(pods, id) /\ Obj(pods, id).owner = id

\* C6: no step of the engine changes or removes an object of the store; all it
\* may do is add a ConfigMap or a Pod that was absent.
C6_Frame ==
    [][ (nenv' = nenv /\ ((\E id \in Ids : Start(id)) \/ Engine)) =>
            /\ clients' = clients
            /\ upstreams' = upstreams
            /\ configmaps \subseteq configmaps'
            /\ pods \subseteq pods' ]_vars

C6_Witness ==
    \E id \in Ids :
        LET p == pass[id] IN
        /\ Done(p) /\ p.clean /\ p.hadConfigMap
        /\ p.result.err = Nil
        /\ p.createdConfigMap.data # p.configmap.data
        /\ Obj(configmaps, id) = p.createdConfigMap

\* C7: an upstream of the listing is in the filtered list iff its client field
\* is the Client's name, and a pass does not end at the listing for want of
\* upstreams.
C7_FilterCorrect ==
    \A id \in Ids :
        LET p == pass[id] IN
        /\ Range(p.filteredUpstreams) \subseteq Range(p.items)
        /\ \A u \in Range(p.items) :
              u \in Range(p.filteredUpstreams) <=> u.client = Name(id)
        /\ (Done(p) /\ LastCall(p).op = "list"
                    /\ p.result.err \notin {"Transient", "Canceled"})
              => ~NewConfigOk(p.client)

C7_Witness ==
    \E id \in Ids :
        LET p == pass[id] IN
        /\ Range(p.items) = Upstreams
        /\ Len(p.filteredUpstreams) = 1
        /\ p.pc = "getConfigMap"

\* C8: no upstream is in the Related-Resource Sets of two Clients.
C8_RelatedByIdentity ==
    \A i \in Ids, j \in Ids : i # j => related[i] \cap related[j] = {}

\* C9: a pass ends with an error and no delay, or with no error and the short
\* or the long delay.
C9_ExitContract ==
    \A id \in Ids :
        LET p == pass[id] IN
        Done(p) =>
            \/ p.result.err # Nil /\ p.result.requeueAfter = NoDelay
            \/ p.result.err = Nil /\ p.result.requeueAfter \in {ShortDelay, LongDelay}

C9_Witness ==
    \E id \in Ids :
        LET p == pass[id] IN
        Done(p) /\ p.result.err = "AlreadyExists" /\ p.result.requeueAfter = NoDelay

\* C10: the step that finds the Client missing ends the pass with the error
\* and no delay, after the one Get and nothing else, and leaves the store as
\* it is.
C10_NotFound ==
    [][ \A id \in Ids :
          (pass[id].pc # "done" /\ pass'[id].pc = "done"
              /\ pass'[id].result.err = "NotFound") =>
            /\ pass'[id].result.requeueAfter = NoDelay
            /\ pass'[id].calls = <<Call("get", "Client", NoOwner, "")>>
            /\ store' = store ]_vars

C10_Witness ==
    \E id \in Ids :
        LET p == pass[id] IN
        Done(p) /\ p.result.err = "NotFound" /\ ~Has(clients, id)


C12_Converges ==
    /\ [](\A id \in Ids : Has(pods, id) => Has(configmaps, id))
    /\ [](\A id \in Ids : pass[id].createdPod.phase = PodRunning
                              => Has(pods, id) /\ Obj(pods, id).owner = id)
    /\ \A id \in Ids :
          <>(/\ Done(pass[id])
             /\ pass[id].result = [err |-> Nil, requeueAfter |-> LongDelay]
             /\ Reloads(pass[id].calls) = 0)

C12_Witness ==
    \E id \in Ids :
        LET p == pass[id] IN
        /\ Done(p) /\ p.hadConfigMap /\ p.hadPod
        /\ p.result = [err |-> Nil, requeueAfter |-> LongDelay]
        /\ Reloads(p.calls) = 0
        /\ Obj(configmaps, id).owner = id /\ Obj(pods, id).owner = id

\* The stored ConfigMap of id differs from what a pass would render now, and
\* the pod is Running.
Drifted(id) ==
    /\ Has(clients, id) /\ NewConfigOk(Obj(clients, id))
    /\ Has(configmaps, id)
    /\ Has(pods, id) /\ Obj(pods, id).phase = PodRunning
    /\ Obj(configmaps, id).data # RenderedConfigMap(Obj(clients, id), ListItems).data

\* C13: no step of the engine ends a drift; and when a pass has found the
\* stored ConfigMap different and reloaded, the next successful pass, nothing
\* external having changed, reloads again and leaves the drift in place.
C13_DriftNeverCleared ==
    /\ [](\A id \in Ids :
            (/\ Len(hist[id]) = 2
             /\ hist[id][1].creates = 0 /\ hist[id][1].reloads = 1
             /\ hist[id][2].err = Nil)
                => hist[id][2].reloads = 1 /\ Drifted(id))
    /\ [][ (nenv' = nenv /\ ((\E id \in Ids : Start(id)) \/ Engine)) =>
              \A id \in Ids : Drifted(id) => Drifted(id)' ]_vars

C13_Witness ==
    \E id \in Ids :
        /\ Len(hist[id]) = 2
        /\ hist[id][1].creates = 0 /\ hist[id][1].reloads = 1
        /\ hist[id][2].err = Nil /\ hist[id][2].reloads = 1
        /\ Drifted(id)

\* C14: once the context of a pass is cancelled, the pass carries out no
\* further call to the store: at most one more is attempted, and it ends the
\* pass with the context's error.
C14_CancellationHonored ==
    \A id \in Ids :
        LET p == pass[id] IN
        p.ctxDone =>
            \A i \in (p.cancelledAt + 1)..Len(p.calls) :
                p.calls[i].op \in {"get", "list", "create"} =>
                    /\ i = p.cancelledAt + 1
                    /\ i = Len(p.calls)
                    /\ Done(p) /\ p.result.err = "Canceled"

\* What one pass for id returns and calls when it runs alone on the store
\* state snap with no call failing: Reconcile read as a function.
Expected(id, snap) ==
    LET get == <<Call("get", "Client", NoOwner, "")>>
        list == Append(get, Call("list", "Upstream", NoOwner, ""))
        rendered == RenderedConfigMap(snap.client, snap.items)
        hasConfigMap == snap.configmap.id = id
        hasPod == snap.pod.id = id
        ensureConfigMap ==
            list \o <<Call("get", "ConfigMap", NoOwner, "")>>
                 \o (IF hasConfigMap THEN <<>> ELSE <<Call("create", "ConfigMap", id, "")>>)
        ensurePod ==
            ensureConfigMap \o <<Call("get", "Pod", NoOwner, "")>>
                 \o (IF hasPod THEN <<>> ELSE <<Call("create", "Pod", id, "")>>)
        check == Append(ensurePod, Call("check", "local", NoOwner, ""))
        compare == Append(check, Call("compare", "local", NoOwner, ""))
    IN
    IF snap.client.id # id
    THEN [result |-> [err |-> "NotFound", requeueAfter |-> NoDelay], calls |-> get]
    ELSE IF ~NewConfigOk(snap.client)
    THEN [result |-> [err |-> "Invalid", requeueAfter |-> NoDelay], calls |-> list]
    ELSE IF ~(hasPod /\ snap.pod.phase = PodRunning)
    THEN [result |-> [err |-> Nil, requeueAfter |-> ShortDelay], calls |-> check]
    ELSE IF hasConfigMap /\ snap.configmap.data = rendered.data
    THEN [result |-> [err |-> Nil, requeueAfter |-> LongDelay], calls |-> compare]
    ELSE [result |-> [err |-> Nil, requeueAfter |-> LongDelay],
          calls |-> Append(compare, Call("reload", "Worker", NoOwner, snap.pod.podIP))]

Observed(p) == [result |-> p.result, calls |-> p.calls]

\* C16: what an undisturbed pass returns and calls is a function of the store
\* state it started against, whatever came before; and of two consecutive
\* undisturbed passes started against the same state, the second returns and
\* calls what the first did.
C16_LevelTriggered ==
    \A id \in Ids :
        LET p == pass[id] IN
        /\ (Done(p) /\ p.clean) => Observed(p) = Expected(id, p.snap)
        /\ (Len(hist[id]) = 2 /\ hist[id][1].snap = hist[id][2].snap)
              => hist[id][1] = hist[id][2]

C16_Witness ==
    \E id \in Ids :
        /\ Len(hist[id]) = 2
        /\ hist[id][1].snap = hist[id][2].snap
        /\ hist[id][2].reloads = 1
        /\ Done(pass[id]) /\ pass[id].clean

\* C15: with passes of different identities interleaved, a step of the pass
\* of one identity adds only objects keyed by and owned by that identity and
\* changes nothing the pass of another identity reads or holds; and every
\* pass returns and calls what it would, run alone on the state it started
\* against.
C15_ConcurrentIdentities ==
    /\ [](\A id \in Ids :
            (Done(pass[id]) /\ pass[id].clean)
                => Observed(pass[id]) = Expected(id, pass[id].snap))
    /\ [][ \A i \in Ids :
              Reconcile(i) =>
                /\ clients' = clients /\ upstreams' = upstreams
                /\ configmaps \subseteq configmaps' /\ pods \subseteq pods'
                /\ \A o \in (configmaps' \ configmaps) \cup (pods' \ pods) :
                      o.id = i /\ o.owner = i
                /\ \A j \in Ids \ {i} : pass'[j] = pass[j] ]_vars

C15_Witness ==
    \A id \in Ids :
        /\ pass[id].pc = "sleep" /\ pass[id].clean
        /\ Creates(pass[id].calls) = 2
        /\ Obj(configmaps, id).owner = id /\ Obj(pods, id).owner = id

(***************************************************************************)
(* C17.  A pass that creates the Pod (its fetch answered not-found and its *)
(* create succeeded) ends with no error, the short requeue delay and no    *)
(* reload call, whatever phase the Pod reaches in the store meanwhile: the *)
(* readiness check reads the object the fetch filled, which stayed empty,  *)
(* so the drift comparison is never reached.                               *)
(***************************************************************************)
CreatedPod(p) ==
    \E i \in 1..Len(p.calls) :
        /\ p.calls[i].op = "create" /\ p.calls[i].kind = "Pod"
        /\ p.failure.at # i

C17_CreatingPassRequeuesShort ==
    \A id \in Ids :
        LET p == pass[id] IN
        /\ CreatedPod(p) => p.createdPod = EmptyPod
        /\ (Done(p) /\ CreatedPod(p)) =>
              /\ p.result = [err |-> "nil", requeueAfter |-> ShortDelay]
              /\ Reloads(p.calls) = 0
              /\ Compares(p) = 0
              /\ LastCall(p).op = "check"

\* A pass created the Pod, the kubelet brought it to Running during the pause,
\* and the pass has returned.
C17_Witness ==
    \E id \in Ids :
        /\ Done(pass[id]) /\ CreatedPod(pass[id])
        /\ Has(pods, id) /\ Obj(pods, id).phase = PodRunning
        /\ Obj(pods, id).owner = id
        /\ pass[id].result.requeueAfter = ShortDelay

(***************************************************************************)
(* C18.  The drift comparison uses the ConfigMap as the fetch filled it.   *)
(* In a pass that found no ConfigMap and created it from the rendered      *)
(* document, and whose Pod fetch found a Running Pod, the fetched object   *)
(* is still the empty one at the comparison, the rendered data differs     *)
(* from it, and handler.Reload is called in that same pass.                *)
(***************************************************************************)
CreatedConfigMap(p) ==
    \E i \in 1..Len(p.calls) :
        /\ p.calls[i].op = "create" /\ p.calls[i].kind = "ConfigMap"
        /\ p.failure.at # i

C18_CreatedArtifactReloads ==
    \A id \in Ids :
        LET p == pass[id] IN
        /\ CreatedConfigMap(p) =>
              /\ p.createdConfigMap = EmptyConfigMap
              /\ p.configmap.data # NilData
              /\ ~DeepEqual(p.createdConfigMap.data, p.configmap.data)
        /\ (CreatedConfigMap(p) /\ p.createdPod.phase = PodRunning /\ Checks(p) = 1) =>
              /\ Compares(p) = 1
              /\ p.pc = "reload" \/ Reloads(p.calls) = 1
        /\ (CreatedConfigMap(p) /\ p.createdPod.phase = PodRunning /\ Done(p)) =>
              /\ Reloads(p.calls) = 1
              /\ LastCall(p).op = "reload"
              /\ LastCall(p).addr = p.createdPod.podIP

\* A pass created the ConfigMap beside a Running Pod and has reloaded.
C18_Witness ==
    \E id \in Ids :
        /\ Done(pass[id]) /\ CreatedConfigMap(pass[id])
        /\ ~pass[id].hadConfigMap
        /\ pass[id].createdPod.phase = PodRunning
        /\ Reloads(pass[id].calls) = 1
        /\ pass[id].result = [err |-> "nil", requeueAfter |-> LongDelay]
        /\ Obj(configmaps, id).data = pass[id].configmap.data

(***************************************************************************)
(* C19.  Create-if-absent against a store another actor writes to.  When   *)
(* the ConfigMap or the Pod has appeared between the not-found fetch of a  *)
(* pass and its create call, the create fails, the pass returns that error *)
(* with no requeue delay, and the store is left as it was; and the store   *)
(* never holds two ConfigMaps or two Pods under one identity.              *)
(***************************************************************************)
AtMostOne(kind) == \A a, b \in kind : a.id = b.id => a = b

LostRace(id) ==
    \/ pass[id].pc = "createConfigMap" /\ Has(configmaps, id)
    \/ pass[id].pc = "createPod" /\ Has(pods, id)

C19_CreateIfAbsentRace ==
    /\ [](AtMostOne(configmaps) /\ AtMostOne(pods))
    /\ [][ \A id \in Ids :
              (LostRace(id) /\ Reconcile(id)) =>
                  /\ Done(pass'[id])
                  /\ pass'[id].result.err \in {"AlreadyExists", "Transient"}
                  /\ pass'[id].result.requeueAfter = NoDelay
                  /\ LastCall(pass'[id]).op = "create"
                  /\ pass'[id].failure.at = Len(pass'[id].calls)
                  /\ store' = store ]_vars

\* A pass lost the race for the ConfigMap: its create was refused and the
\* other actor's object is still there.
C19_Witness ==
    \E id \in Ids :
        /\ Done(pass[id])
        /\ pass[id].result = [err |-> "AlreadyExists", requeueAfter |-> NoDelay]
        /\ LastCall(pass[id]).kind = "ConfigMap"
        /\ ~pass[id].hadConfigMap
        /\ Obj(configmaps, id).data = ForeignData
        /\ Obj(configmaps, id).owner = NoOwner

(***************************************************************************)
(* C20.  Artifact before worker.  A pass issues the Pod create only after  *)
(* its ConfigMap fetch found the ConfigMap or its ConfigMap create         *)
(* succeeded; and as long as no external actor has deleted an object,      *)
(* every Pod the engine created has the ConfigMap of its identity beside   *)
(* it in the store.                                                        *)
(***************************************************************************)
\* The ConfigMap fetch or create of the pass succeeded before call number i.
ArtifactEnsuredBefore(p, id, i) ==
    \/ \E j \in 1..(i - 1) :
          /\ p.calls[j].op = "get" /\ p.calls[j].kind = "ConfigMap"
          /\ p.failure.at # j
          /\ p.createdConfigMap.id = id
    \/ \E j \in 1..(i - 1) :
          /\ p.calls[j].op = "create" /\ p.calls[j].kind = "ConfigMap"
          /\ p.failure.at # j

EngineCreatedPod(id) == Has(pods, id) /\ Obj(pods, id).owner = id

C20_ArtifactBeforeWorker ==
    /\ \A id \in Ids :
          \A i \in 1..Len(pass[id].calls) :
              (pass[id].calls[i].op = "create" /\ pass[id].calls[i].kind = "Pod")
                  => ArtifactEnsuredBefore(pass[id], id, i)
    /\ ~deleted => \A id \in Ids : EngineCreatedPod(id) => Has(configmaps, id)

\* A pass has created the ConfigMap and then the Pod, and nothing was deleted.
C20_Witness ==
    \E id \in Ids :
        /\ ~deleted
        /\ CreatedConfigMap(pass[id]) /\ CreatedPod(pass[id])
        /\ ~pass[id].hadConfigMap /\ ~pass[id].hadPod
        /\ EngineCreatedPod(id)
        /\ Has(configmaps, id)
====
